---------------------------- MODULE Spec2Model ----------------------------
(***************************************************************************)
(* Model of Assignment1.py: a linear script that loads banknote_data.csv,  *)
(* splits it into features and labels, aggregates four statistics per      *)
(* feature column, prints a report and shows a scatter plot and a bar      *)
(* chart.                                                                  *)
(*                                                                         *)
(* Numbers.  A float is a record [nan, num, den]: NaN, or the exact        *)
(* rational num/den (den > 0).  Rounding error of float64 is not modelled. *)
(* A line of the file is the sequence of its comma-separated fields, which *)
(* is what split(',') and genfromtxt's line splitter return for it.        *)
(***************************************************************************)
EXTENDS Integers, Sequences, FiniteSets

VARIABLES
    file,        \* the environment: [exists, header, rows] of banknote_data.csv
    pc,          \* position of the script
    handleOpen,  \* TRUE while the file object f is open
    exc,         \* exception in flight / uncaught ("none" when there is none)
    headers,     \* headers (line 11)
    data,        \* data (line 14): [shape, rows]
    features,    \* features (line 27): sequence of rows of floats
    labels,      \* labels (line 28): sequence of integers
    stats,       \* [minimums, maximums, averages, medians] (lines 34-37)
    stdout,      \* lines printed so far
    series,      \* series added to the current figure by plt.scatter
    shown,       \* figures displayed by plt.show(), in order
    exitCode,    \* -1 while running, else the process exit status
    stages       \* stages completed so far, in order

vars == <<file, pc, handleOpen, exc, headers, data, features, labels, stats,
          stdout, series, shown, exitCode, stages>>

---------------------------------------------------------------------------
(* Bounds of the checked inputs *)

MaxRows == 3     \* data rows in the file: 0..MaxRows
MaxVal == 2      \* sample rows are generated from a in 0..MaxVal

(* Columns of a well-formed file: 4 features and the label *)
NumCols == 5

---------------------------------------------------------------------------
(* Floats *)

F(n) == [nan |-> FALSE, num |-> n, den |-> 1]
NaN == [nan |-> TRUE, num |-> 0, den |-> 1]

RatEq(x, y) == ~x.nan /\ ~y.nan /\ x.num * y.den = y.num * x.den
RatLe(x, y) == ~x.nan /\ ~y.nan /\ x.num * y.den <= y.num * x.den

(* Cells of the file: a numeral, or text that float() rejects *)
Num(n) == [num |-> TRUE, val |-> n]
Text == [num |-> FALSE, val |-> 0]

(* Variant: text cells are filled with 0 instead of nan *)
ParseFloat_ZeroFill(cell) == F(cell.val)

(* genfromtxt's converter for dtype float in its default loose mode:      *)
(* float(cell), and the fill value nan when float() raises ValueError.     *)
ParseFloat(cell) == IF cell.num THEN F(cell.val) ELSE NaN

(* The outcomes of casting NaN to int64: the C conversion is undefined;    *)
(* x86-64 builds give INT64_MIN, AArch64 builds give 0.  TLC's integers    *)
(* are 32 bits wide, so INT64_MIN is stood for by -(2^30), a value no cell *)
(* of the checked inputs holds.                                            *)
Int64Min == -(2^30)
CastNaNOutcomes == {Int64Min, 0}

(* float -> int64 for a finite value: truncation toward zero *)
Trunc(x) == IF x.num >= 0 THEN x.num \div x.den ELSE -((-x.num) \div x.den)

---------------------------------------------------------------------------
(* Inputs *)

HeaderNames == <<"variance", "skewness", "curtosis", "entropy", "class", "extra">>
HeaderLens == (NumCols - 2)..(NumCols + 1)

SampleRow(a, l) == <<Num(a), Num(-a), Num(a * a), Num(1 - a), Num(l)>>
TextCols == {1, NumCols}
TextRow(c) == [SampleRow(1, 0) EXCEPT ![c] = Text]
ShortRow == SubSeq(SampleRow(1, 0), 1, NumCols - 1)

RowPool ==
    {SampleRow(a, l) : a \in 0..MaxVal, l \in {0, 1}}
        \cup {TextRow(c) : c \in TextCols}
        \cup {ShortRow}

RowSeqs == UNION {[1..n -> RowPool] : n \in 0..MaxRows}

Files ==
    {[exists |-> TRUE, header |-> SubSeq(HeaderNames, 1, h), rows |-> r] :
        h \in HeaderLens, r \in RowSeqs}
    \cup {[exists |-> FALSE, header |-> <<>>, rows |-> <<>>]}

---------------------------------------------------------------------------
(* Initial state: the interpreter is about to run line 7 *)

NoStats == [minimums |-> <<>>, maximums |-> <<>>, averages |-> <<>>, medians |-> <<>>]
NoData == [shape |-> <<>>, rows |-> <<>>]

Init ==
    /\ file \in Files
    /\ pc = "open"
    /\ handleOpen = FALSE
    /\ exc = "none"
    /\ headers = <<>>
    /\ data = NoData
    /\ features = <<>>
    /\ labels = <<>>
    /\ stats = NoStats
    /\ stdout = <<>>
    /\ series = <<>>
    /\ shown = <<>>
    /\ exitCode = -1
    /\ stages = <<>>

---------------------------------------------------------------------------
(* SECTION 1: LOAD DATA FROM FILE *)

(* An uncaught exception: the interpreter prints the traceback to stderr   *)
(* and the process ends with status 1.                                     *)
Uncaught(e) ==
    /\ exc' = e
    /\ exitCode' = 1
    /\ pc' = "done"

(* line 9: open('banknote_data.csv', 'r') *)
Open ==
    /\ pc = "open"
    /\ IF file.exists
          THEN /\ handleOpen' = TRUE
               /\ pc' = "readline"
               /\ exc' = exc
          ELSE /\ handleOpen' = FALSE
               /\ pc' = "except"
               /\ exc' = "FileNotFoundError"
    /\ UNCHANGED <<file, headers, data, features, labels, stats, stdout,
                   series, shown, exitCode, stages>>

(* line 11: headers = np.array(f.readline().strip().split(',')) *)
ReadHeader ==
    /\ pc = "readline"
    /\ headers' = file.header
    /\ pc' = "genfromtxt"
    /\ UNCHANGED <<file, handleOpen, exc, data, features, labels, stats, stdout,
                   series, shown, exitCode, stages>>

(* np.squeeze of a shape: the axes of length 1 are dropped *)
Squeeze(shape) == SelectSeq(shape, LAMBDA d : d # 1)

(* The rows genfromtxt rejects: those whose field count differs from the   *)
(* first data row's (invalid_raise is True by default).                    *)
InvalidRows(rows) == {i \in 1..Len(rows) : Len(rows[i]) # Len(rows[1])}

ParseRow(row) == [c \in 1..Len(row) |-> ParseFloat(row[c])]

(* line 14: data = np.genfromtxt(f, delimiter=',') *)
Genfromtxt ==
    /\ pc = "genfromtxt"
    /\ IF file.rows = <<>>
          THEN \* "Empty input file" warning, an empty 1-D array
               /\ data' = [shape |-> <<0>>, rows |-> <<>>]
               /\ exc' = exc
          ELSE IF InvalidRows(file.rows) # {}
          THEN /\ data' = data
               /\ exc' = "ValueError"
          ELSE /\ data' = [shape |-> Squeeze(<<Len(file.rows), Len(file.rows[1])>>),
                           rows |-> [r \in 1..Len(file.rows) |-> ParseRow(file.rows[r])]]
               /\ exc' = exc
    /\ pc' = "with_exit"
    /\ UNCHANGED <<file, handleOpen, headers, features, labels, stats, stdout,
                   series, shown, exitCode, stages>>

(* Variant: the file is closed only after a successful parse *)
WithExit_CloseOnSuccess ==
    /\ pc = "with_exit"
    /\ IF exc = "none"
          THEN /\ handleOpen' = FALSE
               /\ pc' = "split"
               /\ stages' = Append(stages, "load")
               /\ UNCHANGED <<exc, exitCode>>
          ELSE /\ handleOpen' = handleOpen
               /\ exc' = exc
               /\ exitCode' = 1
               /\ pc' = "done"
               /\ stages' = stages
    /\ UNCHANGED <<file, headers, data, features, labels, stats, stdout,
                   series, shown>>

(* leaving the with block (line 9): f.__exit__ closes the file, then an    *)
(* exception raised in the block propagates; ValueError matches no except  *)
(* clause of the try statement.                                            *)
WithExit ==
    /\ pc = "with_exit"
    /\ handleOpen' = FALSE
    /\ IF exc = "none"
          THEN /\ pc' = "split"
               /\ stages' = Append(stages, "load")
               /\ UNCHANGED <<exc, exitCode>>
          ELSE /\ Uncaught(exc)
               /\ stages' = stages
    /\ UNCHANGED <<file, headers, data, features, labels, stats, stdout,
                   series, shown>>

Line(t) == [text |-> t, vals |-> <<>>]

NotFoundMessage ==
    <<Line("Error: Required file 'banknote_data.csv' not found."),
      Line("Please ensure the file is in the same directory as this script.")>>

(* Variant: the handler ends the process with exit(0) *)
ExceptNotFound_ExitZero ==
    /\ pc = "except"
    /\ stdout' = stdout \o <<Line("Error: Required file 'banknote_data.csv' not found."),
                             Line("Please ensure the file is in the same directory as this script.")>>
    /\ exc' = "none"
    /\ exitCode' = 0
    /\ pc' = "done"
    /\ UNCHANGED <<file, handleOpen, headers, data, features, labels, stats,
                   series, shown, stages>>

(* lines 15-19: except FileNotFoundError *)
ExceptNotFound ==
    /\ pc = "except"
    /\ stdout' = stdout \o NotFoundMessage
    /\ exc' = "none"
    /\ exitCode' = 1
    /\ pc' = "done"
    /\ UNCHANGED <<file, handleOpen, headers, data, features, labels, stats,
                   series, shown, stages>>

---------------------------------------------------------------------------
(* SECTION 2: SPLIT DATA INTO COMPONENTS *)

(* astype(np.int64) of one float *)
CastInt64(x, nanOutcome) == IF x.nan THEN nanOutcome ELSE Trunc(x)

(* Variant: data[:, :-2] *)
AllButLast_DropTwo(rows) == [r \in 1..Len(rows) |-> SubSeq(rows[r], 1, Len(rows[r]) - 2)]

(* data[:, :-1] : every row without its last column *)
AllButLast(rows) == [r \in 1..Len(rows) |-> SubSeq(rows[r], 1, Len(rows[r]) - 1)]

(* data[:, -1] : the last column *)
LastColumn(rows) == [r \in 1..Len(rows) |-> rows[r][Len(rows[r])]]

(* lines 27-28.  data[:, :-1] indexes two axes: on an array of fewer axes  *)
(* it raises IndexError (too many indices for array).                      *)
Split ==
    /\ pc = "split"
    /\ IF Len(data.shape) < 2
          THEN /\ Uncaught("IndexError")
               /\ UNCHANGED <<features, labels, stages>>
          ELSE /\ features' = AllButLast(data.rows)
               /\ \E o \in CastNaNOutcomes :
                    labels' = [r \in 1..Len(data.rows) |->
                                  CastInt64(LastColumn(data.rows)[r], o)]
               /\ pc' = "aggregate"
               /\ stages' = Append(stages, "split")
               /\ UNCHANGED <<exc, exitCode>>
    /\ UNCHANGED <<file, handleOpen, headers, data, stats, stdout, series, shown>>

---------------------------------------------------------------------------
(* SECTION 3: CALCULATE STATISTICS *)

(* features.shape[1] *)
NumFeatures(m) == IF m = <<>> THEN 0 ELSE Len(m[1])

(* features[:, i] *)
Column(m, i) == [r \in 1..Len(m) |-> m[r][i]]

AnyNaN(col) == \E k \in 1..Len(col) : col[k].nan

Add(x, y) ==
    IF x.nan \/ y.nan THEN NaN
    ELSE [nan |-> FALSE, num |-> x.num * y.den + y.num * x.den, den |-> x.den * y.den]

DivInt(x, n) == IF x.nan THEN NaN ELSE [x EXCEPT !.den = x.den * n]

(* the reductions fold the column from its first element; a comparison     *)
(* with NaN makes the result NaN (np.minimum / np.maximum propagate it)    *)
RECURSIVE MinimumReduce(_, _)
MinimumReduce(col, k) ==
    IF k = 1 THEN col[1]
    ELSE LET m == MinimumReduce(col, k - 1)
         IN  IF m.nan \/ col[k].nan THEN NaN
             ELSE IF RatLe(col[k], m) THEN col[k] ELSE m

RECURSIVE MaximumReduce(_, _)
MaximumReduce(col, k) ==
    IF k = 1 THEN col[1]
    ELSE LET m == MaximumReduce(col, k - 1)
         IN  IF m.nan \/ col[k].nan THEN NaN
             ELSE IF RatLe(m, col[k]) THEN col[k] ELSE m

RECURSIVE AddReduce(_, _)
AddReduce(col, k) ==
    IF k = 0 THEN F(0) ELSE Add(AddReduce(col, k - 1), col[k])

(* Variants: np.max in place of np.min; the last row left out of the sum *)
Min_AsMax(col) == MaximumReduce(col, Len(col))
Mean_DropLastRow(col) == DivInt(AddReduce(col, Len(col) - 1), Len(col))

(* np.min / np.max / np.mean of one column *)
Min(col) == MinimumReduce(col, Len(col))
Max(col) == MaximumReduce(col, Len(col))
Mean(col) == DivInt(AddReduce(col, Len(col)), Len(col))

(* np.partition around the middle indices, modelled by the full sort it    *)
(* agrees with at those indices (insertion sort)                           *)
RECURSIVE Insert(_, _)
Insert(sorted, x) ==
    IF sorted = <<>> THEN <<x>>
    ELSE IF RatLe(x, Head(sorted)) THEN <<x>> \o sorted
    ELSE <<Head(sorted)>> \o Insert(Tail(sorted), x)

RECURSIVE Sort(_, _)
Sort(col, k) == IF k = 0 THEN <<>> ELSE Insert(Sort(col, k - 1), col[k])

(* Variant: the upper middle element alone, whatever the parity of n *)
Median_UpperMiddle(col) ==
    IF AnyNaN(col) THEN NaN ELSE Sort(col, Len(col))[(Len(col) \div 2) + 1]

(* np.median of one column: NaN when the column holds a NaN, else the mean *)
(* of part[index:index+1] (n odd) or part[index-1:index+1] (n even), with  *)
(* index = n // 2 counted from 0                                           *)
Median(col) ==
    LET n == Len(col)
        part == Sort(col, n)
        index == n \div 2
        middle == IF n % 2 = 1 THEN SubSeq(part, index + 1, index + 1)
                               ELSE SubSeq(part, index, index + 1)
    IN  IF AnyNaN(col) THEN NaN ELSE Mean(middle)

(* lines 34-37 *)
Aggregate ==
    /\ pc = "aggregate"
    /\ stats' = [minimums |-> [i \in 1..NumFeatures(features) |-> Min(Column(features, i))],
                 maximums |-> [i \in 1..NumFeatures(features) |-> Max(Column(features, i))],
                 averages |-> [i \in 1..NumFeatures(features) |-> Mean(Column(features, i))],
                 medians  |-> [i \in 1..NumFeatures(features) |-> Median(Column(features, i))]]
    /\ pc' = "report"
    /\ stages' = Append(stages, "aggregate")
    /\ UNCHANGED <<file, handleOpen, exc, headers, data, features, labels, stdout,
                   series, shown, exitCode>>

---------------------------------------------------------------------------
(* The report (lines 40-51) *)

(* format spec .2f : the value in hundredths, rounded to nearest, ties to  *)
(* even; nan prints as "nan"                                               *)
Fmt2(x) ==
    IF x.nan THEN [nan |-> TRUE, hundredths |-> 0]
    ELSE LET n == 100 * x.num
             q == n \div x.den
             r == n - q * x.den
         IN  [nan |-> FALSE,
              hundredths |-> IF 2 * r < x.den THEN q
                             ELSE IF 2 * r > x.den THEN q + 1
                             ELSE IF q % 2 = 0 THEN q ELSE q + 1]

EqRule == "================================================================="
DashRule == "-----------------------------------------------------------------"

(* lines 40-44: print("\n" + "="*65) prints an empty line and the rule *)
ReportHead ==
    <<Line(""), Line(EqRule), Line("BANKNOTE ANALYSIS REPORT"), Line(EqRule),
      Line("Feature      |    Minimum |    Maximum |    Average |     Median"),
      Line(DashRule)>>

(* lines 46-50 for one i (counted from 1) *)
ReportRow(i) ==
    [text |-> headers[i],
     vals |-> <<Fmt2(stats.minimums[i]), Fmt2(stats.maximums[i]),
                Fmt2(stats.averages[i]), Fmt2(stats.medians[i])>>]

(* lines 40-51.  headers[i] raises IndexError once i reaches len(headers); *)
(* the lines printed before it stay printed.                               *)
Report ==
    /\ pc = "report"
    /\ LET n == NumFeatures(features)
           printed == IF n <= Len(headers) THEN n ELSE Len(headers)
           rows == [i \in 1..printed |-> ReportRow(i)]
       IN  IF n > Len(headers)
             THEN /\ stdout' = stdout \o ReportHead \o rows
                  /\ Uncaught("IndexError")
                  /\ stages' = stages
             ELSE /\ stdout' = stdout \o ReportHead \o rows \o <<Line(EqRule)>>
                  /\ pc' = "scatter"
                  /\ stages' = Append(stages, "report")
                  /\ UNCHANGED <<exc, exitCode>>
    /\ UNCHANGED <<file, handleOpen, headers, data, features, labels, stats,
                   series, shown>>

---------------------------------------------------------------------------
(* SECTION 4: CREATE VISUALIZATIONS *)

(* line 62 *)
Classes == <<[value |-> 0, color |-> "blue"], [value |-> 1, color |-> "orange"]>>

(* line 70: f'Class {class_value}' *)
ClassLabel(v) == IF v = 0 THEN "Class 0" ELSE "Class 1"

(* Variant: class_mask = (labels != class_value) *)
RECURSIVE MaskedRows_Inverted(_, _)
MaskedRows_Inverted(v, k) ==
    IF k = 0 THEN <<>>
    ELSE MaskedRows_Inverted(v, k - 1) \o (IF labels[k] # v THEN <<k>> ELSE <<>>)

(* line 64: the rows selected by class_mask = (labels == class_value) *)
RECURSIVE MaskedRows(_, _)
MaskedRows(v, k) ==
    IF k = 0 THEN <<>>
    ELSE MaskedRows(v, k - 1) \o (IF labels[k] = v THEN <<k>> ELSE <<>>)

(* lines 67-72: one plt.scatter call, x = column 0 and y = column 3 of the *)
(* masked rows (columns 1 and 4 counted from 1)                            *)
ScatterSeries(c) ==
    LET sel == MaskedRows(c.value, Len(labels))
    IN  [label |-> ClassLabel(c.value),
         color |-> c.color,
         points |-> [j \in 1..Len(sel) |-> <<features[sel[j]][1], features[sel[j]][4]>>]]

NoBars == <<>>

(* lines 59-81.  features[class_mask, 3] raises IndexError when there are  *)
(* fewer than 4 feature columns, headers[3] when there are fewer than 4    *)
(* header names.  plt.legend() lists every labelled series of the axes.    *)
Scatter ==
    /\ pc = "scatter"
    /\ IF NumFeatures(features) < 4
          THEN /\ series' = <<>>
               /\ Uncaught("IndexError")
               /\ UNCHANGED <<shown, stages>>
          ELSE LET drawn == [k \in 1..Len(Classes) |-> ScatterSeries(Classes[k])]
               IN  /\ series' = drawn
                   /\ IF Len(headers) < 4
                        THEN /\ Uncaught("IndexError")
                             /\ UNCHANGED <<shown, stages>>
                        ELSE /\ shown' = Append(shown,
                                    [kind |-> "scatter",
                                     xlabel |-> headers[1],
                                     ylabel |-> headers[4],
                                     series |-> drawn,
                                     legend |-> [k \in 1..Len(drawn) |-> drawn[k].label],
                                     bars |-> NoBars])
                             /\ pc' = "bar"
                             /\ stages' = Append(stages, "scatter")
                             /\ UNCHANGED <<exc, exitCode>>
    /\ UNCHANGED <<file, handleOpen, headers, data, features, labels, stats, stdout>>

(* line 92 *)
BarColors == <<"blue", "orange", "green", "red">>

(* plt.bar broadcasts x and height to one length: equal lengths, or one of *)
(* them of length 1; anything else raises ValueError (shape mismatch)      *)
Broadcastable(nx, nh) == nx = nh \/ nx = 1 \/ nh = 1
BroadcastLen(nx, nh) == IF nx >= nh THEN nx ELSE nh
At(seq, i) == IF Len(seq) = 1 THEN seq[1] ELSE seq[i]

(* lines 86-101.  x_positions = np.arange(len(headers)-1), the heights are *)
(* averages, the tick labels headers[:-1]; the colors are cycled           *)
Bar ==
    /\ pc = "bar"
    /\ LET nx == Len(headers) - 1
           ticks == SubSeq(headers, 1, Len(headers) - 1)
           nb == BroadcastLen(nx, Len(stats.averages))
       IN  IF ~Broadcastable(nx, Len(stats.averages))
             THEN /\ Uncaught("ValueError")
                  /\ UNCHANGED <<shown, stages>>
             ELSE /\ shown' = Append(shown,
                         [kind |-> "bar",
                          xlabel |-> "Measurement Features",
                          ylabel |-> "Average Value",
                          series |-> <<>>,
                          legend |-> <<>>,
                          bars |-> [b \in 1..nb |->
                                      [x |-> IF nx = 1 THEN 0 ELSE b - 1,
                                       height |-> At(stats.averages, b),
                                       tick |-> At(ticks, b),
                                       color |-> BarColors[((b - 1) % Len(BarColors)) + 1]]]])
                  /\ pc' = "exit"
                  /\ stages' = Append(stages, "bar")
                  /\ UNCHANGED <<exc, exitCode>>
    /\ series' = <<>>
    /\ UNCHANGED <<file, handleOpen, headers, data, features, labels, stats, stdout>>

(* the end of the script: the interpreter exits with status 0 *)
Finish ==
    /\ pc = "exit"
    /\ exitCode' = 0
    /\ pc' = "done"
    /\ UNCHANGED <<file, handleOpen, exc, headers, data, features, labels, stats,
                   stdout, series, shown, stages>>

Next ==
    \/ Open
    \/ ReadHeader
    \/ Genfromtxt
    \/ WithExit
    \/ ExceptNotFound
    \/ Split
    \/ Aggregate
    \/ Report
    \/ Scatter
    \/ Bar
    \/ Finish

Spec == Init /\ [][Next]_vars

---------------------------------------------------------------------------
(* Properties.  The predicates below describe the input file itself.       *)

Range(seq) == {seq[k] : k \in 1..Len(seq)}

UniformRows == \A r \in 1..Len(file.rows) : Len(file.rows[r]) = Len(file.rows[1])

(* every data row has 5 numeric fields, and there is at least one row *)
NumericData ==
    /\ file.exists
    /\ file.rows # <<>>
    /\ \A r \in 1..Len(file.rows) :
          /\ Len(file.rows[r]) = NumCols
          /\ \A c \in 1..NumCols : file.rows[r][c].num

(* a valid input file: a header of 5 names, numeric rows, labels 0 or 1 *)
ValidFile ==
    /\ NumericData
    /\ Len(file.header) = NumCols
    /\ \A r \in 1..Len(file.rows) : file.rows[r][NumCols].val \in {0, 1}

HasTextCell ==
    /\ file.exists
    /\ \E r \in 1..Len(file.rows) : \E c \in 1..Len(file.rows[r]) : ~file.rows[r][c].num

AllLabelsZero ==
    /\ NumericData
    /\ \A r \in 1..Len(file.rows) : file.rows[r][NumCols].val = 0

(* column i of the file, as integers (for a file with NumericData) *)
FileColumn(i) == [r \in 1..Len(file.rows) |-> file.rows[r][i].val]

RECURSIVE SumTo(_, _)
SumTo(col, k) == IF k = 0 THEN 0 ELSE SumTo(col, k - 1) + col[k]

(* the element at position k (from 0) of the column in ascending order *)
OrderStat(col, k) ==
    CHOOSE v \in Range(col) :
        /\ Cardinality({j \in 1..Len(col) : col[j] < v}) <= k
        /\ Cardinality({j \in 1..Len(col) : col[j] <= v}) > k

Aggregated == stats # NoStats
FullOrder == <<"load", "split", "aggregate", "report", "scatter", "bar">>
IsPrefix(a, b) == Len(a) <= Len(b) /\ SubSeq(b, 1, Len(a)) = a
LoadSteps == {"open", "readline", "genfromtxt", "with_exit"}

(* C1: with the input file absent the program prints exactly the two-line  *)
(* error message and ends with exit code 1; nothing else is ever printed,   *)
(* no figure is ever shown and no later stage runs.                         *)
C1_FileAbsent ==
    ~file.exists =>
        /\ shown = <<>>
        /\ stages = <<>>
        /\ pc # "done" => stdout = <<>> /\ exitCode = -1
        /\ pc = "done" =>
              /\ stdout = <<Line("Error: Required file 'banknote_data.csv' not found."),
                            Line("Please ensure the file is in the same directory as this script.")>>
              /\ exitCode = 1
C1_Witness == ~file.exists /\ pc = "done" /\ Len(stdout) = 2

C3_Median ==
    (NumericData /\ Aggregated) =>
        \A i \in 1..(NumCols - 1) :
            LET col == FileColumn(i)
                n == Len(col)
            IN  IF n % 2 = 1
                  THEN RatEq(stats.medians[i], F(OrderStat(col, (n - 1) \div 2)))
                  ELSE RatEq(stats.medians[i],
                             [nan |-> FALSE,
                              num |-> OrderStat(col, (n \div 2) - 1) + OrderStat(col, n \div 2),
                              den |-> 2])
C3_Witness ==
    /\ NumericData /\ Aggregated /\ Len(file.rows) % 2 = 0
    /\ \A r \in 1..Len(file.rows) : ~RatEq(stats.medians[1], F(FileColumn(1)[r]))
C3_WitnessOdd ==
    /\ NumericData /\ Aggregated /\ Len(file.rows) % 2 = 1
    /\ ~RatEq(stats.medians[3], stats.averages[3])

(* C4: the mean of every feature column is the sum of that column over all  *)
(* rows, whatever their labels, divided by the row count; the statistics    *)
(* cover the 4 feature columns and not the label column.                    *)
C4_Mean ==
    (NumericData /\ Aggregated) =>
        /\ Len(stats.minimums) = NumCols - 1
        /\ Len(stats.maximums) = NumCols - 1
        /\ Len(stats.averages) = NumCols - 1
        /\ Len(stats.medians) = NumCols - 1
        /\ \A i \in 1..(NumCols - 1) :
              /\ ~stats.averages[i].nan
              /\ stats.averages[i].num * Len(file.rows)
                    = SumTo(FileColumn(i), Len(file.rows)) * stats.averages[i].den
C4_Witness ==
    /\ NumericData /\ Aggregated
    /\ \E r, q \in 1..Len(file.rows) :
          /\ file.rows[r][NumCols].val = 0
          /\ file.rows[q][NumCols].val = 1
          /\ file.rows[r][1].val # file.rows[q][1].val

(* C5 (as claimed): a valid file with exactly one data row is aggregated    *)
(* without a fault and min = max = mean = median = the row's value for      *)
(* every feature.                                                           *)
C5_SingleRow ==
    (ValidFile /\ Len(file.rows) = 1 /\ pc = "done") =>
        /\ exc = "none"
        /\ Aggregated
        /\ \A i \in 1..(NumCols - 1) :
              /\ RatEq(stats.minimums[i], F(file.rows[1][i].val))
              /\ RatEq(stats.maximums[i], F(file.rows[1][i].val))
              /\ RatEq(stats.averages[i], F(file.rows[1][i].val))
              /\ RatEq(stats.medians[i], F(file.rows[1][i].val))

(* C6 (as claimed): when a data cell is not numeric the load step fails:    *)
(* no later stage is entered, nothing is printed and no figure is shown.    *)
C6_ParseFailure ==
    HasTextCell =>
        /\ pc \in LoadSteps \cup {"done"}
        /\ stages = <<>>
        /\ stdout = <<>>
        /\ shown = <<>>
        /\ pc = "done" => exc = "ValueError"

(* C6 (amended): when a data cell is non-numeric text and every row has the *)
(* same number of fields, the load step does not fail: the file is closed,  *)
(* the parsed matrix holds NaN exactly in the place of each text cell, and  *)
(* the run enters the Splitter with it.                                     *)
C6_NaNSubstituted ==
    (HasTextCell /\ UniformRows /\ pc \notin LoadSteps) =>
        /\ stages # <<>>
        /\ stages[1] = "load"
        /\ ~handleOpen
        /\ Len(data.rows) = Len(file.rows)
        /\ \A r \in 1..Len(file.rows) : \A c \in 1..Len(file.rows[r]) :
              IF file.rows[r][c].num
                THEN RatEq(data.rows[r][c], F(file.rows[r][c].val))
                ELSE data.rows[r][c].nan
C6_Witness ==
    /\ HasTextCell /\ pc = "done" /\ exitCode = 0
    /\ Len(shown) = 2 /\ stats.averages[1].nan

(* C7 (as claimed): with every label 0 the scatter plot holds only the      *)
(* "Class 0" series; no "Class 1" series is created or listed.              *)
C7_OnlyClass0 ==
    (AllLabelsZero /\ shown # <<>>) =>
        /\ Len(shown[1].series) = 1
        /\ shown[1].legend = <<"Class 0">>

(* C7 (amended): with every label 0 no point is plotted for label 1 and     *)
(* every row is a point of the "Class 0" series; the "Class 1" series is    *)
(* still created, empty, and listed in the legend.                          *)
C7_Class1Empty ==
    (AllLabelsZero /\ shown # <<>>) =>
        /\ shown[1].kind = "scatter"
        /\ shown[1].legend = <<"Class 0", "Class 1">>
        /\ Len(shown[1].series) = 2
        /\ shown[1].series[1].label = "Class 0"
        /\ shown[1].series[2].label = "Class 1"
        /\ shown[1].series[2].points = <<>>
        /\ Len(shown[1].series[1].points) = Len(file.rows)
        /\ \A r \in 1..Len(file.rows) :
              /\ RatEq(shown[1].series[1].points[r][1], F(file.rows[r][1].val))
              /\ RatEq(shown[1].series[1].points[r][2], F(file.rows[r][4].val))
C7_Witness == AllLabelsZero /\ shown # <<>> /\ Len(file.rows) >= 2

(* C8 (as claimed): in every run that gets past the load step the header    *)
(* length equals the feature count plus one.                                *)
C8_HeaderLength ==
    (pc \in {"aggregate", "report", "scatter", "bar", "exit"}) =>
        Len(headers) = NumFeatures(features) + 1

(* C8 (amended): in every run that gets past the split step on a file whose *)
(* header line has as many names as its data rows have fields, the header   *)
(* length equals the feature count plus one, the report has one row per     *)
(* feature under that feature's header name, and the bar chart has exactly  *)
(* as many bars and tick labels as there are averages.                      *)
C8_HeaderLengthConsistentFile ==
    (/\ file.exists /\ file.rows # <<>>
     /\ Len(file.header) = Len(file.rows[1])
     /\ Len(stages) >= 2) =>
        /\ Len(headers) = NumFeatures(features) + 1
        /\ Len(stages) >= 4 =>
              /\ Len(stdout) = Len(ReportHead) + NumFeatures(features) + 1
              /\ \A i \in 1..NumFeatures(features) :
                    stdout[Len(ReportHead) + i].text = file.header[i]
        /\ Len(shown) = 2 =>
              /\ Len(shown[2].bars) = Len(stats.averages)
              /\ \A b \in 1..Len(stats.averages) :
                    /\ shown[2].bars[b].tick = file.header[b]
                    /\ shown[2].bars[b].x = b - 1
                    /\ shown[2].bars[b].height = stats.averages[b]
C8_Witness ==
    /\ file.exists /\ file.rows # <<>>
    /\ Len(file.header) = Len(file.rows[1])
    /\ Len(shown) = 2 /\ pc = "done"

(* C9 (as claimed): on a run with an existing, valid input file the stages  *)
(* run once each in the order load, split, aggregate, report, scatter, bar  *)
(* and the process ends with exit code 0; no figure is shown before the     *)
(* report is complete, the bar chart never before the scatter plot, and     *)
(* exit code 1 is not reached.                                              *)
C9_LinearRun ==
    ValidFile =>
        /\ IsPrefix(stages, FullOrder)
        /\ Len(shown) >= 1 => (Len(stages) >= 5 /\ shown[1].kind = "scatter")
        /\ Len(shown) >= 2 => (Len(stages) >= 6 /\ shown[2].kind = "bar")
        /\ exitCode # 1
        /\ pc = "done" => (exitCode = 0 /\ stages = FullOrder)

(* C10: the file handle is open only inside the load step; on every way out *)
(* of it (parsed, not found, fault while reading) the handle is closed or   *)
(* was never opened.                                                        *)
C10_HandleScoped ==
    /\ handleOpen => pc \in {"readline", "genfromtxt", "with_exit"}
    /\ pc \in {"except", "split", "aggregate", "report", "scatter", "bar", "exit", "done"}
          => ~handleOpen
C10_Witness ==
    /\ file.exists /\ pc = "done" /\ exc = "ValueError" /\ stages = <<>> /\ ~handleOpen

===========================================================================
